---- MODULE Spec2Model ----
(***************************************************************************)
(* Model of the semantic-memory engine of symbiote-mcp:                    *)
(*   src/src/memory/store.py       MemoryStore                             *)
(*   src/src/memory/embeddings.py  EmbeddingService                        *)
(*                                                                         *)
(* Text is a sequence of one-character strings.  Python's None is the      *)
(* sentinel NoneStr (for a string) or NoneTags (for a list of strings).    *)
(* Time is counted in ticks; int(time.time()) is the tick count divided by *)
(* TicksPerSecond, datetime.now() keeps the full tick.                     *)
(* Numbers that are floats in the code are exact rationals here: a         *)
(* distance is a numerator over NormSq, a relevance score is in tenths.    *)
(***************************************************************************)
EXTENDS Integers, Sequences, FiniteSets, TLC

VARIABLES
    collection,   \* MemoryStore.collection: the records, in insertion order
    clock,        \* the wall clock, in ticks
    model,        \* EmbeddingService._model: "None" or "loaded"
    loads,        \* how many times SentenceTransformer(...) was constructed
    last,         \* the last MemoryStore call: its arguments and its outcome
    pc,           \* per thread: position inside an EmbeddingService call
    op,           \* per thread: the EmbeddingService method being run
    calls,        \* per thread: number of EmbeddingService calls started
    flight,       \* a store_memory and a search_memory call in progress at once
    emb,          \* the last EmbeddingService call: its argument and its outcome
    tool          \* the last call_tool: transport, tool name and what it gave

vars == <<collection, clock, model, loads, last, pc, op, calls, flight, emb,
          tool>>

-----------------------------------------------------------------------------
(* Bounds of the model *)

MaxClock == 3
TicksPerSecond == 2
NThreads == 2
MaxCalls == 2
MaxBatch == 3

(* Program constants *)

MaxTags == 10
MaxTagLen == 50
MinLimit == 1
MaxLimit == 20
DefaultLimit == 5

-----------------------------------------------------------------------------
(* Text *)

NoneStr == <<"None">>
NoneTags == << <<"None">> >>

IsSpace(c) == c = " "

RECURSIVE LStrip(_)
LStrip(s) ==
    IF s = <<>> THEN s
    ELSE IF IsSpace(Head(s)) THEN LStrip(Tail(s)) ELSE s

RECURSIVE RStrip(_)
RStrip(s) ==
    IF s = <<>> THEN s
    ELSE IF IsSpace(s[Len(s)]) THEN RStrip(SubSeq(s, 1, Len(s) - 1)) ELSE s

\* str.strip()
Strip(s) == RStrip(LStrip(s))

\* "not text or not text.strip()"
Blank(s) == s = NoneStr \/ s = <<>> \/ Strip(s) = <<>>

\* ",".join(tags)
RECURSIVE Join(_)
Join(tags) ==
    IF tags = <<>> THEN <<>>
    ELSE IF Len(tags) = 1 THEN tags[1]
    ELSE tags[1] \o <<",">> \o Join(Tail(tags))

\* s.split(","): "" gives [""], "a," gives ["a", ""]
RECURSIVE SplitFrom(_, _)
SplitFrom(s, cur) ==
    IF s = <<>> THEN <<cur>>
    ELSE IF Head(s) = "," THEN <<cur>> \o SplitFrom(Tail(s), <<>>)
    ELSE SplitFrom(Tail(s), Append(cur, Head(s)))

Split(s) == SplitFrom(s, <<>>)

-----------------------------------------------------------------------------
(* Embeddings.  The pretrained network is outside the repository: encode   *)
(* is a fixed deterministic map from a text to an integer vector of norm   *)
(* 13, decided by the first character of the text.                         *)

Encode(text) ==
    LET s == Strip(text) IN
    IF s = <<>> THEN <<12, 5>>
    ELSE CASE s[1] = "a" -> <<13, 0>>
           [] s[1] = "b" -> <<5, 12>>
           [] s[1] = "q" -> <<0, 13>>
           [] s[1] = "z" -> <<-13, 0>>
           [] OTHER -> <<12, 5>>

Dot(u, v) == u[1] * v[1] + u[2] * v[2]

\* Squared norm of every embedding: distances are numerators over NormSq.
NormSq == Dot(Encode(<<"a">>), Encode(<<"a">>))

\* The collection is created without "hnsw:space", so the query reports
\* Chroma's default squared-L2 distance: 0 for equal unit vectors, 2 for
\* orthogonal ones, 4 for opposite ones.
Distance(u, v) == Dot(u, u) + Dot(v, v) - 2 * Dot(u, v)


-----------------------------------------------------------------------------
(* Relevance *)

\* round(x) of the non-negative rational num/den, ties to even (Python round)
RoundHalfEven(num, den) ==
    LET q == num \div den
        r == num % den
    IN  IF 2 * r < den THEN q
        ELSE IF 2 * r > den THEN q + 1
        ELSE IF q % 2 = 0 THEN q ELSE q + 1

\* A faulty variant of Clamp: the lower clamp left out.
ClampMissing(num) == num

\* max(0, x), on the numerator of x
Clamp(num) == IF num < 0 THEN 0 ELSE num

\* round(max(0, (2 - distance) / 2 * 100), 1), in tenths; d is the numerator
\* of the distance over NormSq.
RelevanceScore(d) ==
    LET num == Clamp((2 * NormSq - d) * 100)
        den == 2 * NormSq
    IN  IF num >= 0 THEN RoundHalfEven(num * 10, den)
        ELSE 0 - RoundHalfEven((0 - num) * 10, den)

-----------------------------------------------------------------------------
(* EmbeddingService, called from one thread *)

\* _load_model: the model is constructed when self._model is None
LoadsAfter == IF model = "None" THEN loads + 1 ELSE loads

-----------------------------------------------------------------------------
(* MemoryStore *)

NoResult == [memory_id |-> -1, success |-> FALSE, timestamp |-> -1,
             embedding_dimensions |-> 0]

NoLast == [op |-> "none", outcome |-> "none", error |-> "",
           content |-> NoneStr, tags |-> NoneTags, limit |-> 0,
           result |-> NoResult, results |-> <<>>, total_results |-> 0,
           query_embedding_generated |-> FALSE, before |-> <<>>,
           embed_calls |-> 0, loads_before |-> 0]

\* "if tags:" is false for None and for the empty list
HasTags(tags) == tags # NoneTags /\ tags # <<>>

\* A faulty variant of TooManyTags: the bound off by one.
TooManyTagsOffByOne(tags) == Len(tags) > MaxTags + 1

TooManyTags(tags) == Len(tags) > MaxTags

\* The validation of store_memory: the message of the ValueError, or "ok"
ValidateStore(content, tags) ==
    IF Blank(content) THEN "Content cannot be empty"
    ELSE IF ~HasTags(tags) THEN "ok"
    ELSE IF TooManyTags(tags) THEN "Maximum 10 tags allowed"
    ELSE IF \E i \in 1..Len(tags) : tags[i] = <<>> \/ Strip(tags[i]) = <<>>
         THEN "Tags cannot be empty"
    ELSE IF \E i \in 1..Len(tags) : Len(tags[i]) > MaxTagLen
         THEN "Tags must be maximum 50 characters"
    ELSE "ok"

\* f"mem_{int(time.time())}": the whole seconds of the clock
MemoryId(now) == now \div TicksPerSecond

\* metadata: the timestamp, and the joined tags when there are tags
Metadata(now, tags) ==
    [timestamp |-> now, tags |-> IF HasTags(tags) THEN Join(tags) ELSE NoneStr]

Ids(coll) == {coll[i].id : i \in 1..Len(coll)}

\* A faulty variant of CollectionAdd: a record with an existing id replaces it.
CollectionUpsert(coll, rec) ==
    IF rec.id \in Ids(coll)
    THEN [i \in 1..Len(coll) |-> IF coll[i].id = rec.id THEN rec ELSE coll[i]]
    ELSE Append(coll, rec)

\* collection.add of a PersistentClient: a record whose id is already in the
\* collection is ignored, without an exception.
CollectionAdd(coll, rec) ==
    IF rec.id \in Ids(coll) THEN coll ELSE Append(coll, rec)

\* A faulty variant of EmbeddingReached: the embedding is generated before
\* the tags and the limit are checked.
EmbeddingReachedEarly(error) ==
    error \notin {"Content cannot be empty", "Query cannot be empty"}

\* generate_embedding is called after every check, so only when none raised
EmbeddingReached(error) == error = "ok"

\* backend is "up", or "down" when the model fails to load or to compute:
\* generate_embedding then raises the backend's exception
\* A faulty variant of WrittenRecord: the add is made without documents=.
WrittenRecordNoDocument(rec) == [rec EXCEPT !.document = NoneStr]

\* what the one collection.add call writes: ids, embeddings, documents and
\* metadatas of the record together
WrittenRecord(rec) == rec

StoreMemory(content, tags, backend) ==
    LET error == ValidateStore(content, tags)
        reached == EmbeddingReached(error)
        memory_id == MemoryId(clock)
        embedding == Encode(content)
        metadata == Metadata(clock, tags)
        rec == [id |-> memory_id, embedding |-> embedding,
                document |-> content, metadata |-> metadata]
        call == [NoLast EXCEPT !.op = "store", !.content = content,
                     !.tags = tags, !.before = collection,
                     !.embed_calls = IF reached THEN 1 ELSE 0,
                     !.loads_before = loads]
    IN  /\ loads' = IF reached /\ backend = "up" THEN LoadsAfter ELSE loads
        /\ model' = IF reached /\ backend = "up" THEN "loaded" ELSE model
        /\ IF error # "ok"
           THEN /\ last' = [call EXCEPT !.outcome = "ValueError",
                                !.error = error]
                /\ UNCHANGED collection
           ELSE IF backend = "down"
           THEN /\ last' = [call EXCEPT !.outcome = "EmbeddingError",
                                !.error = "embedding backend failed"]
                /\ UNCHANGED collection
           ELSE /\ collection' = CollectionAdd(collection, WrittenRecord(rec))
                /\ last' = [call EXCEPT !.outcome = "ok",
                                !.result = [memory_id |-> memory_id,
                                            success |-> TRUE,
                                            timestamp |-> metadata.timestamp,
                                            embedding_dimensions |->
                                                Len(embedding)]]
        /\ UNCHANGED <<clock, pc, op, calls, flight, emb>>

\* The validation of search_memory
ValidateSearch(query, limit) ==
    IF Blank(query) THEN "Query cannot be empty"
    ELSE IF ~(MinLimit <= limit /\ limit <= MaxLimit)
         THEN "Limit must be between 1 and 20"
    ELSE "ok"

\* collection.query(query_embeddings=[qe], n_results=n): the indices of the
\* min(n, count) nearest records, nearest first.  The order of records at
\* equal distance, and which of them make the cut, is the index's choice.
QueryOrders(coll, qe, n) ==
    LET k == IF n < Len(coll) THEN n ELSE Len(coll)
        d(i) == Distance(qe, coll[i].embedding)
    IN  {s \in [1..k -> 1..Len(coll)] :
            /\ \A i, j \in 1..k : i < j => s[i] # s[j] /\ d(s[i]) <= d(s[j])
            /\ \A m \in 1..Len(coll) :
                   (\A i \in 1..k : s[i] # m) => \A i \in 1..k : d(s[i]) <= d(m)}

\* metadata["tags"].split(",") when the key is there and not empty
ParseTags(metadata) ==
    IF metadata.tags # NoneStr /\ metadata.tags # <<>>
    THEN Split(metadata.tags) ELSE NoneTags

FormatResult(rec, distance) ==
    [memory_id |-> rec.id, content |-> rec.document,
     timestamp |-> rec.metadata.timestamp,
     relevance_score |-> RelevanceScore(distance),
     tags |-> ParseTags(rec.metadata)]

\* A faulty variant of FormatResults: results of relevance 0 are filtered out.
FormatResultsThreshold(coll, order, qe) ==
    LET all == [i \in 1..Len(order) |->
                   FormatResult(coll[order[i]],
                                Distance(qe, coll[order[i]].embedding))]
    IN  SelectSeq(all, LAMBDA r : r.relevance_score > 0)

\* the loop over results["ids"][0]
FormatResults(coll, order, qe) ==
    [i \in 1..Len(order) |->
        FormatResult(coll[order[i]], Distance(qe, coll[order[i]].embedding))]

\* A faulty variant of SearchMemory: the query is remembered as a record.
SearchMemoryRemembersQuery(query, limit, backend) ==
    /\ ValidateSearch(query, limit) = "ok"
    /\ Len(collection) < MaxClock
    /\ collection' = Append(collection,
                         [id |-> -1, embedding |-> Encode(query),
                          document |-> query,
                          metadata |-> Metadata(clock, NoneTags)])
    /\ last' = [NoLast EXCEPT !.op = "search", !.outcome = "ok",
                    !.content = query, !.limit = limit,
                    !.before = collection, !.embed_calls = 1,
                    !.loads_before = loads,
                    !.query_embedding_generated = TRUE]
    /\ loads' = LoadsAfter
    /\ model' = "loaded"
    /\ UNCHANGED <<clock, pc, op, calls, flight, emb>>

SearchMemory(query, limit, backend) ==
    LET error == ValidateSearch(query, limit)
        reached == EmbeddingReached(error)
        query_embedding == Encode(query)
        call == [NoLast EXCEPT !.op = "search", !.content = query,
                     !.limit = limit, !.before = collection,
                     !.embed_calls = IF reached THEN 1 ELSE 0,
                     !.loads_before = loads]
    IN  /\ loads' = IF reached /\ backend = "up" THEN LoadsAfter ELSE loads
        /\ model' = IF reached /\ backend = "up" THEN "loaded" ELSE model
        /\ IF error # "ok"
           THEN last' = [call EXCEPT !.outcome = "ValueError", !.error = error]
           ELSE IF backend = "down"
           THEN last' = [call EXCEPT !.outcome = "EmbeddingError",
                             !.error = "embedding backend failed"]
           ELSE \E order \in QueryOrders(collection, query_embedding, limit) :
                    LET formatted_results ==
                            FormatResults(collection, order, query_embedding)
                    IN  last' = [call EXCEPT !.outcome = "ok",
                                     !.results = formatted_results,
                                     !.total_results = Len(formatted_results),
                                     !.query_embedding_generated = TRUE]
        /\ UNCHANGED <<collection, clock, pc, op, calls, flight, emb>>

\* get_memory_count
GetMemoryCount(coll) == Len(coll)

\* time passes
Tick ==
    /\ clock < MaxClock
    /\ clock' = clock + 1
    /\ UNCHANGED <<collection, model, loads, last, pc, op, calls, flight, emb,
                   tool>>

-----------------------------------------------------------------------------
(* Inputs *)

Tag50 == [i \in 1..MaxTagLen |-> "x"]
Tag51 == [i \in 1..MaxTagLen + 1 |-> "x"]
TenTags == [i \in 1..MaxTags |-> IF i = 1 THEN Tag50 ELSE <<"t">>]
ElevenTags == [i \in 1..MaxTags + 1 |-> <<"t">>]

ValidTagLists ==
    {NoneTags, <<>>, << <<"a">>, <<"b">> >>, << <<"a", ",", "b">> >>, TenTags}

InvalidTagLists ==
    {ElevenTags, << <<>> >>, << <<"a">>, <<" ">> >>, << Tag51 >>}

StoreInputs ==
    ({<<"a">>, <<"b">>} \X (ValidTagLists \cup InvalidTagLists))
    \cup ({NoneStr, <<>>, <<" ">>} \X {NoneTags, << <<"a">>, <<"b">> >>})

SearchInputs ==
    ({<<"a">>, <<"q">>, <<"z">>} \X {MinLimit - 1, MinLimit, 2, MaxLimit, MaxLimit + 1})
    \cup ({NoneStr, <<>>, <<" ">>} \X {MinLimit, MaxLimit + 1})

Threads == 1..NThreads

NoStoreInFlight == [spc |-> "idle", content |-> NoneStr, tags |-> NoneTags,
                    memory_id |-> -1, embedding |-> <<>>, before |-> <<>>]

NoFlight == [spc |-> "idle", content |-> NoneStr, tags |-> NoneTags,
             memory_id |-> -1, embedding |-> <<>>, store_before |-> <<>>,
             qpc |-> "idle", query |-> NoneStr, limit |-> 0,
             query_embedding |-> <<>>, raw |-> <<>>, seen |-> <<>>,
             store_at_query |-> NoStoreInFlight]

NoEmb == [method |-> "none", outcome |-> "none", error |-> "",
          texts |-> <<>>, vectors |-> <<>>, dimensions |-> 0]

NoTool == [transport |-> "none", name |-> "none", kind |-> "none",
           exception |-> "none", text |-> <<>>]

Init ==
    /\ collection = <<>>
    /\ clock = 0
    /\ model = "None"
    /\ loads = 0
    /\ last = NoLast
    /\ pc = [t \in Threads |-> "idle"]
    /\ op = [t \in Threads |-> "none"]
    /\ calls = [t \in Threads |-> 0]
    /\ flight = NoFlight
    /\ emb = NoEmb
    /\ tool = NoTool

\* the store is called directly, with the embedding backend up
Store ==
    \E in \in StoreInputs : StoreMemory(in[1], in[2], "up") /\ UNCHANGED tool

Search ==
    \E in \in SearchInputs : SearchMemory(in[1], in[2], "up") /\ UNCHANGED tool

Next == Tick \/ Store \/ Search

Spec == Init /\ [][Next]_vars

-----------------------------------------------------------------------------
(* EmbeddingService, called from several threads.  A call is cut where it  *)
(* reads or writes self._model: the test "self._model is None", the        *)
(* construction of the SentenceTransformer, the assignment to self._model, *)
(* and the return.                                                         *)

Methods == {"generate_embedding", "generate_embeddings_batch",
            "get_embedding_dimensions"}

StoreVars == <<collection, clock, last, flight, emb, tool>>

\* a thread enters one of the three public methods
Call(t, m) ==
    /\ pc[t] = "idle"
    /\ calls[t] < MaxCalls
    /\ calls' = [calls EXCEPT ![t] = @ + 1]
    /\ op' = [op EXCEPT ![t] = m]
    /\ pc' = [pc EXCEPT ![t] = IF m = "get_embedding_dimensions"
                               THEN "load_check" ELSE "validate"]
    /\ UNCHANGED <<model, loads, StoreVars>>

\* the argument checks of generate_embedding and generate_embeddings_batch:
\* an empty argument raises ValueError before _load_model is called
Validate(t, valid) ==
    /\ pc[t] = "validate"
    /\ pc' = [pc EXCEPT ![t] = IF valid THEN "load_check" ELSE "idle"]
    /\ UNCHANGED <<model, loads, op, calls, StoreVars>>

\* _load_model: "if self._model is None"
LoadCheck(t) ==
    /\ pc[t] = "load_check"
    /\ pc' = [pc EXCEPT ![t] = IF model = "None" THEN "load_construct"
                               ELSE "load_return"]
    /\ UNCHANGED <<model, loads, op, calls, StoreVars>>

\* _load_model: SentenceTransformer(self.model_name) is constructed
LoadConstruct(t) ==
    /\ pc[t] = "load_construct"
    /\ loads' = loads + 1
    /\ pc' = [pc EXCEPT ![t] = "load_assign"]
    /\ UNCHANGED <<model, op, calls, StoreVars>>

\* _load_model: self._model = <the new model>; the nested
\* get_embedding_dimensions() of the print then finds self._model set
LoadAssign(t) ==
    /\ pc[t] = "load_assign"
    /\ model' = "loaded"
    /\ pc' = [pc EXCEPT ![t] = "load_return"]
    /\ UNCHANGED <<loads, op, calls, StoreVars>>

\* _load_model returns self._model; the method encodes and returns
LoadReturn(t) ==
    /\ pc[t] = "load_return"
    /\ pc' = [pc EXCEPT ![t] = "idle"]
    /\ UNCHANGED <<model, loads, op, calls, StoreVars>>

NextLoad ==
    \E t \in Threads :
        \/ \E m \in Methods : Call(t, m)
        \/ \E valid \in BOOLEAN : Validate(t, valid)
        \/ LoadCheck(t)
        \/ LoadConstruct(t)
        \/ LoadAssign(t)
        \/ LoadReturn(t)

SpecLoad == Init /\ [][NextLoad]_vars

-----------------------------------------------------------------------------
(* Claims *)

StoreReturned == last.op = "store" /\ last.outcome = "ok"
SearchReturned == last.op = "search" /\ last.outcome = "ok"

\* the position in coll of the record with this id
IndexOf(coll, id) == CHOOSE i \in 1..Len(coll) : coll[i].id = id

\* the distance of a search result from the query of the last call
ResultDistance(r) ==
    Distance(Encode(last.content),
             collection[IndexOf(collection, r.memory_id)].embedding)

\* C1: every store_memory call that returns successfully returns a memory_id
\* that no record already in the store has.
C1_FreshId ==
    StoreReturned => last.result.memory_id \notin Ids(last.before)

\* C2: a store_memory call that returns successfully leaves
\* get_memory_count() exactly one larger than before the call.
C2_CountPlusOne ==
    StoreReturned =>
        GetMemoryCount(collection) = GetMemoryCount(last.before) + 1

AllSpaces(s) == s # NoneStr /\ \A i \in 1..Len(s) : s[i] = " "

InvalidStoreInput(content, tags) ==
    \/ AllSpaces(content)
    \/ /\ tags # NoneTags
       /\ \/ Len(tags) > 10
          \/ \E i \in 1..Len(tags) : AllSpaces(tags[i])
          \/ \E i \in 1..Len(tags) : Len(tags[i]) > 50

InvalidSearchInput(query, limit) ==
    AllSpaces(query) \/ limit < 1 \/ limit > 20

\* C3: store_memory with empty or whitespace-only content, more than 10
\* tags, an empty or whitespace-only tag or a tag longer than 50 characters,
\* and search_memory with an empty or whitespace-only query or a limit
\* outside 1..20, raise ValueError and leave the records and the count as
\* they were.
C3_InvalidInputRaises ==
    /\ (last.op = "store" /\ InvalidStoreInput(last.content, last.tags)) =>
           /\ last.outcome = "ValueError"
           /\ collection = last.before
           /\ GetMemoryCount(collection) = GetMemoryCount(last.before)
    /\ (last.op = "search" /\ InvalidSearchInput(last.content, last.limit)) =>
           /\ last.outcome = "ValueError"
           /\ collection = last.before
           /\ GetMemoryCount(collection) = GetMemoryCount(last.before)

C3_Witness ==
    /\ last.op = "store"
    /\ last.tags = ElevenTags
    /\ ~AllSpaces(last.content)
    /\ last.outcome = "ValueError"
    /\ Len(collection) >= 1

\* C4: store_memory returns success only if a record with the returned id,
\* the given content, its embedding and its metadata is in the collection.
C4_SuccessMeansPersisted ==
    StoreReturned =>
        \E i \in 1..Len(collection) :
            collection[i] =
                [id |-> last.result.memory_id,
                 embedding |-> Encode(last.content),
                 document |-> last.content,
                 metadata |-> Metadata(last.result.timestamp, last.tags)]

\* C5: every record of the collection is still in it, unchanged, after every
\* step: the record set only grows.
C5_OnlyGrows ==
    [][\A i \in 1..Len(collection) :
          \E j \in 1..Len(collection') : collection'[j] = collection[i]]_vars

\* a store_memory call returned on a store that already had a record in the
\* second of the call
C5_Witness ==
    /\ StoreReturned
    /\ Len(last.before) >= 1
    /\ last.result.memory_id \in Ids(last.before)
    /\ collection = last.before

Min(a, b) == IF a < b THEN a ELSE b

\* C6: a search_memory call that returns gives at most limit results and at
\* least min(limit, count) results, and total_results is their number.
C6_ResultCount ==
    SearchReturned =>
        /\ Len(last.results) <= last.limit
        /\ Len(last.results) >= Min(last.limit, GetMemoryCount(collection))
        /\ last.total_results = Len(last.results)

\* a search over two records that returns a result of relevance 0
C6_Witness ==
    /\ SearchReturned
    /\ GetMemoryCount(collection) = 2
    /\ Len(last.results) = 2
    /\ \E i \in 1..Len(last.results) : last.results[i].relevance_score = 0

\* C7: the results are in non-increasing order of relevance_score, and of
\* two results at equal distance the earlier-stored record comes first.
C7_OrderedTiesByInsertion ==
    SearchReturned =>
        \A i, j \in 1..Len(last.results) :
            i < j =>
                /\ last.results[i].relevance_score >=
                       last.results[j].relevance_score
                /\ ResultDistance(last.results[i]) =
                       ResultDistance(last.results[j]) =>
                       IndexOf(collection, last.results[i].memory_id) <
                           IndexOf(collection, last.results[j].memory_id)

\* C8: every relevance_score is in [0, 100], is the exact value
\* max(0, (2 - d) / 2 * 100) rounded to one decimal, is 100 at distance 0
\* and 0 at distance 2 (scores are in tenths, distances over NormSq).
C8_RelevanceRange ==
    SearchReturned =>
        \A i \in 1..Len(last.results) :
            LET score == last.results[i].relevance_score
                d == ResultDistance(last.results[i])
                exact == IF d > 2 * NormSq THEN 0 ELSE (2 * NormSq - d) * 1000
                diff == score * 2 * NormSq - exact
            IN  /\ 0 <= score /\ score <= 1000
                /\ 2 * diff <= 2 * NormSq /\ 2 * (0 - diff) <= 2 * NormSq
                /\ d = 0 => score = 1000
                /\ d = 2 * NormSq => score = 0

\* a search returned a record further than distance 2 from the query
C8_Witness ==
    /\ SearchReturned
    /\ \E i \in 1..Len(last.results) :
           ResultDistance(last.results[i]) > 2 * NormSq

\* C9: the tags search_memory returns for a record are the tags list that
\* store_memory was given for it, same entries in the same order.
C9_TagsRoundTrip ==
    (StoreReturned /\ HasTags(last.tags) /\ collection # last.before) =>
        FormatResult(collection[Len(collection)], 0).tags = last.tags

\* C10: the model is constructed at most once, whatever the interleaving of
\* the calls on the EmbeddingService.
C10_LoadedOnce == loads <= 1

\* C11: a store_memory or search_memory call that fails validation has not
\* called generate_embedding and has not loaded the model.
C11_ValidationFirst ==
    last.outcome = "ValueError" =>
        /\ last.embed_calls = 0
        /\ loads = last.loads_before
        /\ (last.loads_before = 0 => model = "None")

\* a store_memory call failed its last check, and the model was never loaded
C11_Witness ==
    /\ last.op = "store"
    /\ last.outcome = "ValueError"
    /\ last.error = "Tags must be maximum 50 characters"
    /\ model = "None"

-----------------------------------------------------------------------------
(* One store_memory call and one search_memory call in progress at once.   *)
(* Each call is cut at its calls into the embedding service and into the   *)
(* collection; flight holds the local variables of both calls.             *)

ConcStoreInputs == {<<"a">>, <<"b">>} \X {NoneTags, << <<"a">>, <<"b">> >>}

ConcSearchInputs == {<<"a">>, <<"z">>} \X {MinLimit, 2}

ConcFrame == <<last, pc, op, calls, emb, tool>>

\* store_memory: the checks pass and memory_id is made from the clock
StoreBegin(content, tags) ==
    /\ flight.spc = "idle"
    /\ ValidateStore(content, tags) = "ok"
    /\ flight' = [flight EXCEPT !.spc = "id_made", !.content = content,
                      !.tags = tags, !.memory_id = MemoryId(clock),
                      !.embedding = <<>>, !.store_before = collection]
    /\ UNCHANGED <<collection, clock, model, loads, ConcFrame>>

\* store_memory: embedding = generate_embedding(content)
StoreEmbed ==
    /\ flight.spc = "id_made"
    /\ flight' = [flight EXCEPT !.spc = "embedded",
                      !.embedding = Encode(flight.content)]
    /\ loads' = LoadsAfter
    /\ model' = "loaded"
    /\ UNCHANGED <<collection, clock, ConcFrame>>

\* the record the store_memory call in progress hands to collection.add
FlightRecord(now) ==
    [id |-> flight.memory_id, embedding |-> flight.embedding,
     document |-> flight.content, metadata |-> Metadata(now, flight.tags)]

\* store_memory: the metadata is made and collection.add is called
StoreAdd ==
    /\ flight.spc = "embedded"
    /\ collection' = CollectionAdd(collection, WrittenRecord(FlightRecord(clock)))
    /\ flight' = [flight EXCEPT !.spc = "added"]
    /\ UNCHANGED <<clock, model, loads, ConcFrame>>

\* store_memory returns its result
StoreReturn ==
    /\ flight.spc = "added"
    /\ flight' = [flight EXCEPT !.spc = "idle", !.content = NoneStr,
                      !.tags = NoneTags, !.memory_id = -1,
                      !.embedding = <<>>, !.store_before = <<>>]
    /\ UNCHANGED <<collection, clock, model, loads, ConcFrame>>

\* search_memory: the checks pass
SearchBegin(query, limit) ==
    /\ flight.qpc = "idle"
    /\ ValidateSearch(query, limit) = "ok"
    /\ flight' = [flight EXCEPT !.qpc = "validated", !.query = query,
                      !.limit = limit, !.query_embedding = <<>>,
                      !.raw = <<>>, !.seen = <<>>,
                      !.store_at_query = NoStoreInFlight]
    /\ UNCHANGED <<collection, clock, model, loads, ConcFrame>>

\* search_memory: query_embedding = generate_embedding(query)
SearchEmbed ==
    /\ flight.qpc = "validated"
    /\ flight' = [flight EXCEPT !.qpc = "embedded",
                      !.query_embedding = Encode(flight.query)]
    /\ loads' = LoadsAfter
    /\ model' = "loaded"
    /\ UNCHANGED <<collection, clock, ConcFrame>>

\* search_memory: collection.query reports ids, documents, distances and
\* metadatas of the nearest records
SearchQuery ==
    /\ flight.qpc = "embedded"
    /\ \E order \in QueryOrders(collection, flight.query_embedding,
                                flight.limit) :
           flight' = [flight EXCEPT
               !.qpc = "queried",
               !.raw = [i \in 1..Len(order) |->
                           [id |-> collection[order[i]].id,
                            document |-> collection[order[i]].document,
                            distance |-> Distance(flight.query_embedding,
                                            collection[order[i]].embedding),
                            metadata |-> collection[order[i]].metadata]],
               !.seen = collection,
               !.store_at_query =
                   [spc |-> flight.spc, content |-> flight.content,
                    tags |-> flight.tags, memory_id |-> flight.memory_id,
                    embedding |-> flight.embedding,
                    before |-> flight.store_before]]
    /\ UNCHANGED <<collection, clock, model, loads, ConcFrame>>

\* search_memory formats the results and returns
SearchReturn ==
    /\ flight.qpc = "queried"
    /\ flight' = [flight EXCEPT !.qpc = "idle", !.query = NoneStr,
                      !.limit = 0, !.query_embedding = <<>>, !.raw = <<>>,
                      !.seen = <<>>, !.store_at_query = NoStoreInFlight]
    /\ UNCHANGED <<collection, clock, model, loads, ConcFrame>>

NextConc ==
    \/ Tick
    \/ \E in \in ConcStoreInputs : StoreBegin(in[1], in[2])
    \/ StoreEmbed
    \/ StoreAdd
    \/ StoreReturn
    \/ \E in \in ConcSearchInputs : SearchBegin(in[1], in[2])
    \/ SearchEmbed
    \/ SearchQuery
    \/ SearchReturn

SpecConc == Init /\ [][NextConc]_vars

-----------------------------------------------------------------------------
(* EmbeddingService, one call after the other *)

EmbedTexts == {<<>>, <<" ">>, <<"a">>, <<"b">>, <<" ", "b">>}

RECURSIVE SeqsUpTo(_, _)
SeqsUpTo(S, n) ==
    IF n = 0 THEN {<<>>}
    ELSE LET shorter == SeqsUpTo(S, n - 1)
         IN  shorter \cup {Append(q, x) : q \in shorter, x \in S}

EmbedBatches == SeqsUpTo(EmbedTexts, MaxBatch)

EmbedFrame == <<collection, clock, last, pc, op, calls, flight, tool>>

\* generate_embedding(text)
GenerateEmbedding(text) ==
    IF Blank(text)
    THEN /\ emb' = [NoEmb EXCEPT !.method = "generate_embedding",
                        !.outcome = "ValueError",
                        !.error = "Cannot generate embedding for empty text",
                        !.texts = <<text>>]
         /\ UNCHANGED <<model, loads, EmbedFrame>>
    ELSE /\ loads' = LoadsAfter
         /\ model' = "loaded"
         /\ emb' = [NoEmb EXCEPT !.method = "generate_embedding",
                        !.outcome = "ok", !.texts = <<text>>,
                        !.vectors = <<Encode(text)>>]
         /\ UNCHANGED EmbedFrame

\* A faulty variant of SomeTextBlank: only the first text is checked.
FirstTextBlank(texts) == Blank(texts[1])

\* any(not text or not text.strip() for text in texts)
SomeTextBlank(texts) == \E i \in 1..Len(texts) : Blank(texts[i])

\* model.encode(texts): one row per text, in the order of the texts
EncodeBatch(texts) == [i \in 1..Len(texts) |-> Encode(texts[i])]

\* generate_embeddings_batch(texts)
GenerateEmbeddingsBatch(texts) ==
    LET call == [NoEmb EXCEPT !.method = "generate_embeddings_batch",
                     !.texts = texts]
    IN  IF texts = <<>>
        THEN /\ emb' = [call EXCEPT !.outcome = "ValueError",
                            !.error = "Cannot generate embeddings for empty list"]
             /\ UNCHANGED <<model, loads, EmbedFrame>>
        ELSE IF SomeTextBlank(texts)
        THEN /\ emb' = [call EXCEPT !.outcome = "ValueError",
                            !.error = "Cannot generate embedding for empty text"]
             /\ UNCHANGED <<model, loads, EmbedFrame>>
        ELSE /\ loads' = LoadsAfter
             /\ model' = "loaded"
             /\ emb' = [call EXCEPT !.outcome = "ok",
                            !.vectors = EncodeBatch(texts)]
             /\ UNCHANGED EmbedFrame

\* get_embedding_dimensions()
GetEmbeddingDimensions ==
    /\ loads' = LoadsAfter
    /\ model' = "loaded"
    /\ emb' = [NoEmb EXCEPT !.method = "get_embedding_dimensions",
                   !.outcome = "ok",
                   !.dimensions = Len(Encode(<<"a">>))]
    /\ UNCHANGED EmbedFrame

NextEmbed ==
    \/ \E text \in EmbedTexts : GenerateEmbedding(text)
    \/ \E texts \in EmbedBatches : GenerateEmbeddingsBatch(texts)
    \/ GetEmbeddingDimensions

SpecEmbed == Init /\ [][NextEmbed]_vars

\* what generate_embedding gives for one text alone
AloneOutcome(text) ==
    IF AllSpaces(text) THEN [outcome |-> "ValueError", vector |-> <<>>]
    ELSE [outcome |-> "ok", vector |-> Encode(text)]

-----------------------------------------------------------------------------
(* The tool handlers of server.py.  One process serves one transport: the  *)
(* FastAPI/SSE handler of lifespan ("sse") or the handler of run_stdio     *)
(* ("stdio").  arguments is a dictionary: a function on the keys it has.   *)

\* arguments.get(key, default)
ArgGet(arguments, key, default) ==
    IF key \in DOMAIN arguments THEN arguments[key] ELSE default

NoArguments == [key \in {} |-> NoneStr]

ToolCalls ==
    {<<"spawn_venom", NoArguments>>,
     <<"forget_memory", NoArguments>>,
     <<"store_memory", [content |-> <<"a">>]>>,
     <<"store_memory", [content |-> <<"b">>,
                        tags |-> << <<"a">>, <<"b">> >>]>>,
     <<"store_memory", NoArguments>>,
     <<"store_memory", [content |-> <<"a">>, tags |-> ElevenTags]>>,
     <<"search_memory", [query |-> <<"a">>]>>,
     <<"search_memory", [query |-> <<"z">>, limit |-> MinLimit]>>,
     <<"search_memory", [query |-> <<"q">>, limit |-> MaxLimit + 1]>>,
     <<"search_memory", [query |-> <<>>, limit |-> MinLimit]>>,
     <<"search_memory", NoArguments>>}

Backends == {"up", "down"}

\* what call_tool of lifespan gives after the store call described by call
SseOutcome(name, call) ==
    IF name = "spawn_venom"
    THEN [kind |-> "text", exception |-> "none", text |-> <<"personality">>]
    ELSE IF name \in {"search_memory", "store_memory"}
    THEN IF call.outcome = "ok"
         THEN [kind |-> "text", exception |-> "none",
               text |-> <<"str(result)">>]
         ELSE [kind |-> "text", exception |-> "none",
               text |-> <<"Error: ", call.error>>]
    ELSE [kind |-> "raise", exception |-> "ValueError",
          text |-> <<"Unknown tool: ", name>>]

\* what call_tool of run_stdio gives: an exception of the store call is not
\* caught
StdioOutcome(name, call) ==
    IF name = "spawn_venom"
    THEN [kind |-> "text", exception |-> "none", text |-> <<"personality">>]
    ELSE IF name \in {"search_memory", "store_memory"}
    THEN IF call.outcome = "ok"
         THEN [kind |-> "text", exception |-> "none",
               text |-> <<"str(result)">>]
         ELSE [kind |-> "raise", exception |-> call.outcome,
               text |-> <<call.error>>]
    ELSE [kind |-> "raise", exception |-> "ValueError",
          text |-> <<"Unknown tool: ", name>>]

HandlerOutcome(transport, name, call) ==
    IF transport = "sse" THEN SseOutcome(name, call)
    ELSE StdioOutcome(name, call)

ToolRecord(transport, name, outcome) ==
    [transport |-> transport, name |-> name, kind |-> outcome.kind,
     exception |-> outcome.exception, text |-> outcome.text]

\* call_tool(name, arguments) of the transport the process serves
CallTool(transport, name, arguments, backend) ==
    /\ tool.transport \in {"none", transport}
    /\ IF name = "search_memory"
       THEN SearchMemory(ArgGet(arguments, "query", NoneStr),
                         ArgGet(arguments, "limit", DefaultLimit), backend)
       ELSE IF name = "store_memory"
       THEN StoreMemory(ArgGet(arguments, "content", NoneStr),
                        ArgGet(arguments, "tags", NoneTags), backend)
       ELSE UNCHANGED <<collection, clock, model, loads, last, pc, op, calls,
                        flight, emb>>
    /\ tool' = ToolRecord(transport, name,
                          HandlerOutcome(transport, name, last'))

NextTools ==
    \/ Tick
    \/ \E transport \in {"sse", "stdio"}, c \in ToolCalls, backend \in Backends :
           CallTool(transport, c[1], c[2], backend)

SpecTools == Init /\ [][NextTools]_vars

\* the kind of outcome the caller of a handler sees, whatever the message
OutcomeKind(outcome) == <<outcome.kind, outcome.exception>>

\* C14: a failure of the embedding backend reaches the caller of the store
\* and of the tool handler as an outcome of another kind than the one a
\* validation error gives.
C14_EmbeddingErrorDistinct ==
    (tool.name \in {"store_memory", "search_memory"}
        /\ last.outcome = "EmbeddingError") =>
        /\ last.outcome # "ValueError"
        /\ OutcomeKind(tool) #
               OutcomeKind(HandlerOutcome(tool.transport, tool.name,
                   [last EXCEPT !.outcome = "ValueError",
                                !.error = "Content cannot be empty"]))

\* C15: the handler of the stdio transport and the handler of the SSE
\* transport give the caller the same outcome for the same call.
C15_HandlersAgree ==
    tool.name # "none" =>
        /\ tool = ToolRecord(tool.transport, tool.name,
                             SseOutcome(tool.name, last))
        /\ tool = ToolRecord(tool.transport, tool.name,
                             StdioOutcome(tool.name, last))

\* C16: a search_memory call, returning or raising, leaves the records and
\* get_memory_count() as they were before the call.
C16_SearchChangesNothing ==
    last.op = "search" =>
        /\ collection = last.before
        /\ GetMemoryCount(collection) = GetMemoryCount(last.before)

\* a search returned results from a store that holds two records
C16_Witness ==
    /\ last.op = "search"
    /\ last.outcome = "ok"
    /\ Len(last.results) >= 1
    /\ GetMemoryCount(collection) = 2

=============================================================================
